---- MODULE Spec2Model ----
(***************************************************************************)
(* Model of src/src/whatsapp.ts: the message normalizer                    *)
(* (parseMessageForDb), the session event handler registered by            *)
(* startWhatsAppConnection, and the outbound sendWhatsAppMessage.          *)
(*                                                                         *)
(* Optional values (undefined / null in the source) are sequences of       *)
(* length 0 or 1: <<>> is an absent value, <<v>> a present one.            *)
(***************************************************************************)
EXTENDS Integers, Sequences, FiniteSets, TLC

(* ------------------------------ bounds -------------------------------- *)
\* longest message list of a history or upsert event
MaxMsgs == 3
\* longest chat list of a history or chats.update event
MaxChats == 2
\* most sessions (sockets) ever constructed in one behaviour
MaxSessions == 2
\* most event batches delivered in one behaviour
MaxBatches == 2
\* most handler invocations suspended at an await at once
MaxInFlight == 1
\* most sendWhatsAppMessage calls in one behaviour
MaxSends == 2

(* --------------------------- optional values -------------------------- *)
Absent == <<>>
Some(v) == <<v>>

\* JavaScript truthiness of an optional string: undefined, null and ""
\* are all falsy.
TruthyStr(o) == o # Absent /\ o[1] # ""

(* ------------------------------- JIDs --------------------------------- *)
\* A JID string "user[:device]@server" is kept in decoded form.  A string
\* with no '@' has server = "" (its text is the user field); the empty
\* string is EmptyJid.
Jid(u, d, s) == [user |-> u, device |-> d, server |-> s]
EmptyJid == Jid("", 0, "")

PeerJid == Jid("111", 0, "s.whatsapp.net")
PeerDeviceJid == Jid("111", 5, "s.whatsapp.net")
LegacyJid == Jid("222", 0, "c.us")
GroupJid == Jid("999", 0, "g.us")
MemberJid == Jid("333", 7, "s.whatsapp.net")
JunkJid == Jid("junk", 0, "")

\* truthiness of an optional JID string
TruthyJid(o) == o # Absent /\ o[1] # EmptyJid

\* Baileys isJidGroup: jid?.endsWith("@g.us")
isJidGroup(j) == j.server = "g.us"

\* Baileys jidNormalizedUser: "" when the string does not decode (no '@'),
\* otherwise user@server with the device dropped and c.us rewritten.
jidNormalizedUser(j) ==
  IF j.server = ""
    THEN EmptyJid
    ELSE Jid(j.user, 0, IF j.server = "c.us" THEN "s.whatsapp.net" ELSE j.server)

(* ---------------------------- raw messages ---------------------------- *)
\* The content payload msg.message, with the ten sub-types the normalizer reads.
NoContent ==
  [conversation |-> Absent, extendedText |-> Absent, imageCaption |-> Absent,
   videoCaption |-> Absent, documentCaption |-> Absent,
   documentFileName |-> Absent, audio |-> FALSE, sticker |-> FALSE,
   locationAddress |-> Absent, contactName |-> Absent, pollName |-> Absent]

\* msg.key
Key(id, remote, participant, fromMe) ==
  [id |-> id, remoteJid |-> remote, participant |-> participant, fromMe |-> fromMe]

\* A WAMessage: message and key are optional; tsKind is the JavaScript type
\* of messageTimestamp ("number", "bigint", "long" for a Long object,
\* "absent"), tsVal its value in seconds.
RawMessage(message, key, tsKind, tsVal) ==
  [message |-> message, key |-> key, tsKind |-> tsKind, tsVal |-> tsVal]

(* ----------------------------- normalizer ----------------------------- *)
\* the chain testing each field for presence instead of truthiness
ExtractContentIfPresent(m) ==
  IF m.conversation # Absent THEN m.conversation
  ELSE IF m.extendedText # Absent THEN m.extendedText
  ELSE IF m.imageCaption # Absent THEN Some("[Image] " \o m.imageCaption[1])
  ELSE IF m.videoCaption # Absent THEN Some("[Video] " \o m.videoCaption[1])
  ELSE IF m.documentCaption # Absent
    THEN Some("[Document] " \o m.documentCaption[1])
  ELSE IF m.audio THEN Some("[Audio]")
  ELSE IF m.sticker THEN Some("[Sticker]")
  ELSE IF m.locationAddress # Absent
    THEN Some("[Location] " \o m.locationAddress[1])
  ELSE IF m.contactName # Absent THEN Some("[Contact] " \o m.contactName[1])
  ELSE IF m.pollName # Absent THEN Some("[Poll] " \o m.pollName[1])
  ELSE Absent

\* whatsapp.ts 32-59: the if / else-if chain that extracts the content.
\* The result is an optional string: Absent when content stays null.
ExtractContent(m) ==
  IF TruthyStr(m.conversation) THEN m.conversation
  ELSE IF TruthyStr(m.extendedText) THEN m.extendedText
  ELSE IF TruthyStr(m.imageCaption) THEN Some("[Image] " \o m.imageCaption[1])
  ELSE IF TruthyStr(m.videoCaption) THEN Some("[Video] " \o m.videoCaption[1])
  ELSE IF TruthyStr(m.documentCaption)
    THEN Some("[Document] " \o
              (IF TruthyStr(m.documentCaption) THEN m.documentCaption[1]
               ELSE IF TruthyStr(m.documentFileName) THEN m.documentFileName[1]
               ELSE ""))
  ELSE IF m.audio THEN Some("[Audio]")
  ELSE IF m.sticker THEN Some("[Sticker]")
  ELSE IF TruthyStr(m.locationAddress)
    THEN Some("[Location] " \o m.locationAddress[1])
  ELSE IF TruthyStr(m.contactName) THEN Some("[Contact] " \o m.contactName[1])
  ELSE IF TruthyStr(m.pollName) THEN Some("[Poll] " \o m.pollName[1])
  ELSE Absent

\* timestamp conversion that recognizes the plain number only
TimestampNumOnlyNumber(msg, now) ==
  IF msg.tsKind = "number" THEN msg.tsVal * 1000 ELSE now

\* whatsapp.ts 65-70: seconds to milliseconds; any other representation
\* (absent, or a Long object) takes the wall clock.
TimestampNum(msg, now) ==
  IF msg.tsKind = "number" THEN msg.tsVal * 1000
  ELSE IF msg.tsKind = "bigint" THEN msg.tsVal * 1000
  ELSE now

\* sender attribution without the direct-chat fallback of lines 75-77
SenderJidNoFallback(key) ==
  LET fromMe == key.fromMe # Absent /\ key.fromMe[1]
      remote == key.remoteJid[1]
  IN IF fromMe /\ ~isJidGroup(remote) THEN Absent ELSE key.participant

\* sender attribution dropping the sender of every self-sent message, in
\* groups too
SenderJidSelfAlwaysNull(key) ==
  LET fromMe == key.fromMe # Absent /\ key.fromMe[1]
      remote == key.remoteJid[1]
      s0 == key.participant
      s1 == IF ~fromMe /\ ~TruthyJid(s0) /\ ~isJidGroup(remote)
              THEN key.remoteJid ELSE s0
  IN IF fromMe THEN Absent ELSE s1

\* whatsapp.ts 74-80: the sender JID before canonicalization (optional).
SenderJid(key) ==
  LET fromMe == key.fromMe # Absent /\ key.fromMe[1]
      remote == key.remoteJid[1]
      s0 == key.participant
      s1 == IF ~fromMe /\ ~TruthyJid(s0) /\ ~isJidGroup(remote)
              THEN key.remoteJid ELSE s0
  IN IF fromMe /\ ~isJidGroup(remote) THEN Absent ELSE s1

\* whatsapp.ts 85: sender: senderJid ? jidNormalizedUser(senderJid) : null
Sender(key) ==
  LET s == SenderJid(key)
  IN IF TruthyJid(s) THEN Some(jidNormalizedUser(s[1])) ELSE Absent

\* whatsapp.ts 27-90: the record, or Absent for null.
parseMessageForDb(msg, now) ==
  IF msg.message = Absent \/ msg.key = Absent
       \/ ~TruthyJid(msg.key[1].remoteJid)
    THEN Absent
    ELSE LET content == ExtractContent(msg.message[1])
             key == msg.key[1]
         IN IF ~TruthyStr(content)
              THEN Absent
              ELSE Some([id |-> key.id,
                         chat_jid |-> key.remoteJid[1],
                         sender |-> Sender(key),
                         content |-> content[1],
                         timestamp |-> TimestampNum(msg, now),
                         is_from_me |-> (key.fromMe # Absent /\ key.fromMe[1])])

(* --------------------------- event batches ---------------------------- *)
\* DisconnectReason.loggedOut
loggedOut == 401
\* AUTH_DIR, the credential reference of every session
AUTH_DIR == "auth_info"

\* events["connection.update"]: connection, lastDisconnect...statusCode, qr
ConnUpdate(connection, statusCode, qr) ==
  [connection |-> connection, statusCode |-> statusCode, qr |-> qr]

\* a chat of messaging-history.set or chats.update
Chat(id, name, ts) == [id |-> id, name |-> name, conversationTimestamp |-> ts]

\* One batch handed to the handler of sock.ev.process: each event category
\* is optional (creds is the presence of creds.update).
Batch(conn, creds, history, upsert, chats) ==
  [conn |-> conn, creds |-> creds, history |-> history, upsert |-> upsert,
   chats |-> chats]

(* ------------------------------ effects ------------------------------- *)
\* A call the handler makes on a collaborator.  ev names the event branch
\* that made it.
Eff(op, ev) == [op |-> op, ev |-> ev, chat |-> Absent, msg |-> Absent, url |-> ""]
ChatEff(ev, c) == [Eff("storeChat", ev) EXCEPT !.chat = Some(c)]
MsgEff(ev, r) == [Eff("storeMessage", ev) EXCEPT !.msg = Some(r)]

\* encodeURIComponent on the challenge tokens of the input space: '@' is
\* escaped, letters and digits are kept
encodeURIComponent(t) == IF t = "2@qr" THEN "2%40qr" ELSE t

\* whatsapp.ts 120-123: open("https://quickchart.io/qr?text=" + token)
OpenEff(qr) ==
  [Eff("open", "connection.update") EXCEPT
     !.url = "https://quickchart.io/qr?text=" \o encodeURIComponent(qr)]

RECURSIVE MapSeq(_, _)
MapSeq(F(_), s) == IF s = <<>> THEN <<>> ELSE <<F(Head(s))>> \o MapSeq(F, Tail(s))

RECURSIVE FlatSeq(_, _)
FlatSeq(F(_), s) == IF s = <<>> THEN <<>> ELSE F(Head(s)) \o FlatSeq(F, Tail(s))

(* ------------------------ the handler's branches ---------------------- *)
\* whatsapp.ts 160-164 / 217-221: the record handed to storeChat
storeChatArg(chat) ==
  [jid |-> chat.id, name |-> chat.name,
   last_message_time |->
     IF chat.conversationTimestamp # Absent /\ chat.conversationTimestamp[1] # 0
       THEN Some(chat.conversationTimestamp[1] * 1000)
       ELSE Absent]

\* whatsapp.ts 169-175 / 187-206: one message of a list: parse, store if parsed
StoreParsed(ev, msg, now) ==
  LET parsed == parseMessageForDb(msg, now)
  IN IF parsed # Absent THEN <<MsgEff(ev, parsed[1])>> ELSE <<>>

\* the close branch reconnecting whatever the cause
ConnectionClosedAlwaysReconnect(update) ==
  IF update.connection = Some("close")
    THEN <<Eff("startWhatsAppConnection", "connection.update")>>
    ELSE IF update.connection = Some("open")
      THEN <<Eff("logged", "connection.update")>>
      ELSE <<>>

\* whatsapp.ts 126-146: the close / open branch of connection.update
ConnectionClosedOrOpen(update) ==
  IF update.connection = Some("close")
    THEN IF update.statusCode # Some(loggedOut)
           THEN <<Eff("startWhatsAppConnection", "connection.update")>>
           ELSE <<Eff("process.exit", "connection.update")>>
    ELSE IF update.connection = Some("open")
      THEN <<Eff("logged", "connection.update")>>
      ELSE <<>>

\* the history branch storing the messages before the chats
MessagingHistorySetMessagesFirst(h, now) ==
  LET storeOne(c) == ChatEff("messaging-history.set", storeChatArg(c))
      parseOne(m) == StoreParsed("messaging-history.set", m, now)
  IN FlatSeq(parseOne, h.messages) \o MapSeq(storeOne, h.chats)

\* whatsapp.ts 154-177: messaging-history.set
MessagingHistorySet(h, now) ==
  LET storeOne(c) == ChatEff("messaging-history.set", storeChatArg(c))
      parseOne(m) == StoreParsed("messaging-history.set", m, now)
  IN MapSeq(storeOne, h.chats) \o FlatSeq(parseOne, h.messages)

\* the upsert loop leaving at the first message that does not parse
RECURSIVE StoreUntilFailure(_, _)
StoreUntilFailure(msgs, now) ==
  IF msgs = <<>> \/ parseMessageForDb(Head(msgs), now) = Absent
    THEN <<>>
    ELSE StoreParsed("messages.upsert", Head(msgs), now)
           \o StoreUntilFailure(Tail(msgs), now)

MessagesUpsertStopAtFailure(u, now) ==
  IF u.type = "notify" \/ u.type = "append"
    THEN StoreUntilFailure(u.messages, now)
    ELSE <<>>

\* the upsert branch without the test of the batch type
MessagesUpsertAnyType(u, now) ==
  LET parseOne(m) == StoreParsed("messages.upsert", m, now)
  IN FlatSeq(parseOne, u.messages)

\* whatsapp.ts 179-208: messages.upsert
MessagesUpsert(u, now) ==
  LET parseOne(m) == StoreParsed("messages.upsert", m, now)
  IN IF u.type = "notify" \/ u.type = "append"
       THEN FlatSeq(parseOne, u.messages)
       ELSE <<>>

\* whatsapp.ts 210-224: chats.update
ChatsUpdate(cs) ==
  LET storeOne(c) == ChatEff("chats.update", storeChatArg(c))
  IN MapSeq(storeOne, cs)

(* ---------------- the handler, from one await to the next ------------- *)
\* A run of the handler ends at pc "open" (awaiting open(...)), "save"
\* (awaiting saveCreds()), "exited" (process.exit) or "completed"; an
\* invocation whose awaited promise rejects ends "rejectedOpen" or
\* "rejectedSave".
\* whatsapp.ts 154-224, after the credential branch
FromHistory(b, now) ==
  [pc |-> "completed",
   trace |-> (IF b.history # Absent THEN MessagingHistorySet(b.history[1], now) ELSE <<>>)
          \o (IF b.upsert # Absent THEN MessagesUpsert(b.upsert[1], now) ELSE <<>>)
          \o (IF b.chats # Absent THEN ChatsUpdate(b.chats[1]) ELSE <<>>)]

\* whatsapp.ts 149-152: creds.update
FromCreds(b, now) ==
  IF b.creds
    THEN [pc |-> "save", trace |-> <<Eff("saveCreds", "creds.update")>>]
    ELSE FromHistory(b, now)

\* close branch after which the handler goes on to the other events of the
\* batch even when process.exit was called
FromCloseExitReturns(b, now) ==
  LET c == IF b.conn # Absent THEN ConnectionClosedOrOpen(b.conn[1]) ELSE <<>>
      rest == FromCreds(b, now)
  IN [pc |-> rest.pc, trace |-> c \o rest.trace]

\* whatsapp.ts 126-147, then on to the credential branch unless the
\* process exited
FromClose(b, now) ==
  LET c == IF b.conn # Absent THEN ConnectionClosedOrOpen(b.conn[1]) ELSE <<>>
      rest == FromCreds(b, now)
  IN IF \E i \in 1..Len(c) : c[i].op = "process.exit"
       THEN [pc |-> "exited", trace |-> c]
       ELSE [pc |-> rest.pc, trace |-> c \o rest.trace]

\* entry of the handler that presents on every connection update, with
\* an empty token when the update carries none
FromStartOpenOnAnyUpdate(b, now) ==
  IF b.conn # Absent
    THEN [pc |-> "open",
          trace |-> <<OpenEff(IF TruthyStr(b.conn[1].qr)
                                THEN b.conn[1].qr[1] ELSE "")>>]
    ELSE FromClose(b, now)

\* whatsapp.ts 113-124: entry of the handler
FromStart(b, now) ==
  IF b.conn # Absent /\ TruthyStr(b.conn[1].qr)
    THEN [pc |-> "open", trace |-> <<OpenEff(b.conn[1].qr[1])>>]
    ELSE FromClose(b, now)

\* the continuation after the await a task is suspended at
Resume(task, now) ==
  IF task.pc = "open" THEN FromClose(task.batch, now)
  ELSE FromHistory(task.batch, now)

(* ------------------------------ state --------------------------------- *)
VARIABLES
  proc,        \* "running", "exited" (process.exit(1)) or "crashed"
               \* (an unhandled promise rejection ended the process)
  sessions,    \* the sockets made so far, in order: [user, creds]
  pending,     \* startWhatsAppConnection calls between initializeDatabase()
               \* and makeWASocket: [origin, creds]
  callerSock,  \* the socket the first startWhatsAppConnection returned
  starts,      \* number of startWhatsAppConnection calls so far
  initDbCalls, \* number of initializeDatabase() calls so far
  tasks,       \* handler invocations suspended at an await
  last,        \* the handler invocation that ended most recently (optional)
  delivered,   \* number of event batches delivered so far
  send,        \* the sendWhatsAppMessage call in progress or last returned
  sends,       \* number of sendWhatsAppMessage calls so far
  raw,         \* normalizer run: the raw message handed to parseMessageForDb
  rec,         \* normalizer run: the value it returned (optional record)
  normPc       \* normalizer run: "off", "input" or "done"

lifeVars == <<proc, sessions, pending, callerSock, starts, initDbCalls, tasks,
              last, delivered>>
sendVars == <<send, sends>>
normVars == <<raw, rec, normPc>>
vars == <<proc, sessions, pending, callerSock, starts, initDbCalls, tasks,
          last, delivered, send, sends, raw, rec, normPc>>

(* ----------------------- normalizer input space ----------------------- *)
OptText == {Absent, Some(""), Some("cat")}
Clock == {7, 1700000007}
Seconds == {0, 1700000}

\* every combination of the ten content sub-types
Contents ==
  [conversation : OptText, extendedText : OptText, imageCaption : OptText,
   videoCaption : OptText, documentCaption : OptText,
   documentFileName : OptText, audio : BOOLEAN, sticker : BOOLEAN,
   locationAddress : OptText, contactName : OptText, pollName : OptText]

HelloContent == [NoContent EXCEPT !.conversation = Some("hello")]

OptRemote == {Absent, Some(EmptyJid), Some(PeerJid), Some(PeerDeviceJid),
              Some(LegacyJid), Some(GroupJid), Some(JunkJid)}
OptParticipant == {Absent, Some(EmptyJid), Some(MemberJid), Some(LegacyJid),
                   Some(JunkJid)}
OptBool == {Absent, Some(TRUE), Some(FALSE)}
Keys == {Key("m", r, p, f) : r \in OptRemote, p \in OptParticipant, f \in OptBool}
Stamps == {<<"absent", 0>>, <<"long", 1700000>>}
            \cup {<<k, v>> : k \in {"number", "bigint"}, v \in Seconds}

\* every content payload under one direct-chat key, and every key and
\* timestamp under a payload that has content and one that has none
ContentInputs ==
  {RawMessage(Some(c), Some(Key("m", Some(PeerJid), Absent, Some(FALSE))),
              "number", 1700000) : c \in Contents}
KeyInputs ==
  {RawMessage(m, k, t[1], t[2]) :
     m \in {Absent, Some(NoContent), Some(HelloContent)},
     k \in {Absent} \cup {Some(x) : x \in Keys},
     t \in Stamps}
NormInputs == ContentInputs \cup KeyInputs

(* ------------------------- event input space -------------------------- *)
GoodMsg(id) ==
  RawMessage(Some(HelloContent), Some(Key(id, Some(PeerJid), Absent, Some(FALSE))),
             "number", 1700000)
SelfMsg(id) ==
  RawMessage(Some([NoContent EXCEPT !.imageCaption = Some("cat")]),
             Some(Key(id, Some(GroupJid), Some(MemberJid), Some(TRUE))),
             "absent", 0)
\* a message the normalizer rejects: a reaction-like payload with no
\* recognized sub-type
BadMsg(id) ==
  RawMessage(Some(NoContent), Some(Key(id, Some(PeerJid), Absent, Some(FALSE))),
             "number", 1700000)

Chat1 == Chat("111@s.whatsapp.net", Some("Ann"), Some(1700000))
Chat2 == Chat("999@g.us", Absent, Absent)

ConnUpdates ==
  {ConnUpdate(c, Absent, q) :
     c \in {Absent, Some("open")},
     q \in {Absent, Some("2@qr")}}
  \cup
  {ConnUpdate(Some("close"), sc, q) :
     sc \in {Absent, Some(loggedOut), Some(428)},
     q \in {Absent, Some("2@qr")}}
  \cup {ConnUpdate(Absent, Absent, Some("ref2"))}

\* the lists of at most n elements of S
RECURSIVE SeqsUpTo(_, _)
SeqsUpTo(S, n) ==
  IF n = 0 THEN {<<>>}
  ELSE LET shorter == SeqsUpTo(S, n - 1)
       IN shorter \cup {Append(q, x) : q \in shorter, x \in S}

MsgLists == SeqsUpTo({GoodMsg("g"), SelfMsg("s"), BadMsg("b")}, MaxMsgs)
ChatLists == SeqsUpTo({Chat1, Chat2}, MaxChats)
UpsertTypes == {"notify", "append", "prepend"}

OneHistory == Some([chats |-> <<Chat1>>, messages |-> <<GoodMsg("h1")>>])
OneUpsert == Some([messages |-> <<GoodMsg("u1")>>, type |-> "notify"])
OneChats == Some(<<Chat2>>)

\* the batches of the router specification: no connection update and no
\* credential rotation; every history, every upsert and every chat update in
\* turn, next to fixed or absent other events
RouterBatches ==
  {Batch(Absent, FALSE, Some([chats |-> cs, messages |-> ms]), u, c) :
     cs \in ChatLists, ms \in MsgLists, u \in {Absent, OneUpsert},
     c \in {Absent, OneChats}}
  \cup
  {Batch(Absent, FALSE, h, Some([messages |-> ms, type |-> t]), c) :
     h \in {Absent, OneHistory}, ms \in MsgLists, t \in UpsertTypes,
     c \in {Absent, OneChats}}
  \cup
  {Batch(Absent, FALSE, h, u, Some(cs)) :
     h \in {Absent, OneHistory}, u \in {Absent, OneUpsert}, cs \in ChatLists}

\* the batches of the lifecycle specification: every connection update or
\* none, with or without a credential rotation, together with one history,
\* one upsert and one chat update
LifeBatches ==
  {Batch(c, k, OneHistory, OneUpsert, OneChats) :
     c \in {Absent} \cup {Some(u) : u \in ConnUpdates}, k \in BOOLEAN}

\* recipients and texts of the send specification
Recipients == {EmptyJid, PeerJid, PeerDeviceJid, LegacyJid, GroupJid, JunkJid}
Texts == {"", "hi", "see you at 10"}

(* --------------------------- sequences -------------------------------- *)
RemoveAt(s, i) == SubSeq(s, 1, i - 1) \o SubSeq(s, i + 1, Len(s))

CountOp(trace, op) == Cardinality({i \in 1..Len(trace) : trace[i].op = op})

(* ----------------------- startWhatsAppConnection ---------------------- *)
\* whatsapp.ts 92-98: the call up to its first await.  initializeDatabase()
\* has run; the credential reference is AUTH_DIR.
StartCall(origin) == [origin |-> origin, creds |-> AUTH_DIR]

\* whatsapp.ts 101-112, 227: the socket is made, the handler registered and
\* the socket returned (to the first caller; a reconnect drops the promise).
\* sock.user is set when the stored credentials already name the account.
StartFinish(i) ==
  /\ proc = "running"
  /\ i \in 1..Len(pending)
  /\ \E u \in BOOLEAN :
       sessions' = Append(sessions, [user |-> u, creds |-> pending[i].creds])
  /\ callerSock' = IF pending[i].origin = "main"
                     THEN Some(Len(sessions) + 1) ELSE callerSock
  /\ pending' = RemoveAt(pending, i)
  /\ UNCHANGED <<proc, starts, initDbCalls, tasks, last, delivered, sendVars, normVars>>

\* whatsapp.ts 97-98: useMultiFileAuthState or fetchLatestBaileysVersion
\* rejects; nothing handles the rejection, and the runtime either ends the
\* process or only warns.
StartFail(i) ==
  /\ proc = "running"
  /\ i \in 1..Len(pending)
  /\ pending' = RemoveAt(pending, i)
  /\ proc' \in {"running", "crashed"}
  /\ UNCHANGED <<sessions, callerSock, starts, initDbCalls, tasks, last, delivered,
                 sendVars, normVars>>

(* ------------------------- the event handler -------------------------- *)
\* The state after a run r of the handler of session s on batch b, whose
\* earlier runs left the calls of prior; rest are the other suspended
\* invocations.
Settle(s, b, prior, r, rest) ==
  LET trace == prior \o r.trace
      n == CountOp(r.trace, "startWhatsAppConnection")
  IN /\ starts + n <= MaxSessions
     /\ starts' = starts + n
     /\ initDbCalls' = initDbCalls + n
     /\ pending' = IF n = 0 THEN pending ELSE Append(pending, StartCall("reconnect"))
     /\ proc' = IF r.pc = "exited" THEN "exited" ELSE proc
     /\ IF r.pc \in {"open", "save"}
          THEN /\ Len(rest) < MaxInFlight
               /\ tasks' = Append(rest, [sess |-> s, batch |-> b, pc |-> r.pc,
                                         trace |-> trace])
               /\ last' = last
          ELSE /\ tasks' = rest
               /\ last' = Some([sess |-> s, batch |-> b, trace |-> trace,
                                end |-> r.pc])

\* whatsapp.ts 112: the session emits batch b and the handler runs up to its
\* first await; now is what Date.now() returns during the run.  The library
\* sets sock.user before it reports "open".
Deliver(s, b, now) ==
  /\ proc = "running"
  /\ s \in 1..Len(sessions)
  /\ delivered < MaxBatches
  /\ delivered' = delivered + 1
  /\ Settle(s, b, <<>>, FromStart(b, now), tasks)
  /\ sessions' = IF b.conn # Absent /\ b.conn[1].connection = Some("open")
                   THEN [sessions EXCEPT ![s].user = TRUE] ELSE sessions
  /\ UNCHANGED <<callerSock, sendVars, normVars>>

\* the awaited promise (open, saveCreds) resolves and the handler goes on
AwaitResolved(i, now) ==
  /\ proc = "running"
  /\ i \in 1..Len(tasks)
  /\ Settle(tasks[i].sess, tasks[i].batch, tasks[i].trace,
            Resume(tasks[i], now), RemoveAt(tasks, i))
  /\ UNCHANGED <<sessions, callerSock, delivered, sendVars, normVars>>

\* the awaited promise rejects: the handler has no try/catch, the invocation
\* ends there and the rejection is unhandled
AwaitRejected(i) ==
  /\ proc = "running"
  /\ i \in 1..Len(tasks)
  /\ tasks' = RemoveAt(tasks, i)
  /\ last' = Some([sess |-> tasks[i].sess, batch |-> tasks[i].batch,
                   trace |-> tasks[i].trace,
                   end |-> IF tasks[i].pc = "open" THEN "rejectedOpen"
                           ELSE "rejectedSave"])
  /\ proc' \in {"running", "crashed"}
  /\ UNCHANGED <<sessions, pending, callerSock, starts, initDbCalls, delivered,
                 sendVars, normVars>>

(* ------------------------ sendWhatsAppMessage ------------------------- *)
NotConnectedMsg == "Cannot send message: WhatsApp socket not connected or initialized."
MissingRecipientMsg == "Cannot send message: Recipient JID is missing."
EmptyTextMsg == "Cannot send message: Message text is empty."
FailedMsg == "Failed to send message"
SentMsg == "Message sent successfully"

IdleSend ==
  [pc |-> "idle", sock |-> Absent, to |-> EmptyJid, text |-> "", calls |-> <<>>,
   ret |-> Absent, report |-> ""]

\* the preconditions with the recipient tested before the socket
sendWhatsAppMessageRecipientFirst(sock, to, text) ==
  LET call == [pc |-> "returned", sock |-> sock, to |-> to, text |-> text,
               calls |-> <<>>, ret |-> Absent, report |-> ""]
  IN IF to = EmptyJid
       THEN [call EXCEPT !.report = MissingRecipientMsg]
     ELSE IF sock = Absent \/ ~sessions[sock[1]].user
       THEN [call EXCEPT !.report = NotConnectedMsg]
     ELSE IF text = ""
       THEN [call EXCEPT !.report = EmptyTextMsg]
     ELSE [call EXCEPT !.pc = "await",
                       !.calls = <<[sock |-> sock[1], jid |-> jidNormalizedUser(to),
                                    text |-> text]>>]

\* the send handing the recipient to sock.sendMessage as it was given
sendWhatsAppMessageRawJid(sock, to, text) ==
  LET call == [pc |-> "returned", sock |-> sock, to |-> to, text |-> text,
               calls |-> <<>>, ret |-> Absent, report |-> ""]
  IN IF sock = Absent \/ ~sessions[sock[1]].user
       THEN [call EXCEPT !.report = NotConnectedMsg]
     ELSE IF to = EmptyJid
       THEN [call EXCEPT !.report = MissingRecipientMsg]
     ELSE IF text = ""
       THEN [call EXCEPT !.report = EmptyTextMsg]
     ELSE [call EXCEPT !.pc = "await",
                       !.calls = <<[sock |-> sock[1], jid |-> to, text |-> text]>>]

\* whatsapp.ts 236-256: the call up to the await of sock.sendMessage.  calls
\* are the sock.sendMessage invocations made, ret the value returned (Absent
\* for undefined), report the last message logged.
sendWhatsAppMessage(sock, to, text) ==
  LET call == [pc |-> "returned", sock |-> sock, to |-> to, text |-> text,
               calls |-> <<>>, ret |-> Absent, report |-> ""]
  IN IF sock = Absent \/ ~sessions[sock[1]].user
       THEN [call EXCEPT !.report = NotConnectedMsg]
     ELSE IF to = EmptyJid
       THEN [call EXCEPT !.report = MissingRecipientMsg]
     ELSE IF text = ""
       THEN [call EXCEPT !.report = EmptyTextMsg]
     ELSE [call EXCEPT !.pc = "await",
                       !.calls = <<[sock |-> sock[1], jid |-> jidNormalizedUser(to),
                                    text |-> text]>>]

SendCall(sock, to, text) ==
  /\ proc = "running"
  /\ send.pc # "await"
  /\ sends < MaxSends
  /\ sends' = sends + 1
  /\ send' = sendWhatsAppMessage(sock, to, text)
  /\ UNCHANGED <<lifeVars, normVars>>

\* whatsapp.ts 256-258: sock.sendMessage resolves with the sent message
SendResolved ==
  /\ proc = "running"
  /\ send.pc = "await"
  /\ send' = [send EXCEPT !.pc = "returned", !.ret = Some([key |-> [id |-> "3EB0"]]),
                          !.report = SentMsg]
  /\ UNCHANGED <<sends, lifeVars, normVars>>

\* whatsapp.ts 259-262: sock.sendMessage throws; caught, undefined returned
SendRejected ==
  /\ proc = "running"
  /\ send.pc = "await"
  /\ send' = [send EXCEPT !.pc = "returned", !.ret = Absent, !.report = FailedMsg]
  /\ UNCHANGED <<sends, lifeVars, normVars>>

(* --------------------------- specifications --------------------------- *)
\* the process has started and made its first startWhatsAppConnection call
InitLife ==
  /\ proc = "running"
  /\ sessions = <<>>
  /\ pending = <<StartCall("main")>>
  /\ callerSock = Absent
  /\ starts = 1
  /\ initDbCalls = 1
  /\ tasks = <<>>
  /\ last = Absent
  /\ delivered = 0
  /\ send = IdleSend
  /\ sends = 0

Init ==
  /\ InitLife
  /\ raw = BadMsg("m")
  /\ rec = Absent
  /\ normPc = "off"

\* no message of LifeBatches reads the clock
LifeNow == CHOOSE now \in Clock : TRUE
Started == \E i \in 1..Len(pending) : StartFinish(i)
StartFailed == \E i \in 1..Len(pending) : StartFail(i)
Resolved == \E i \in 1..Len(tasks) : AwaitResolved(i, LifeNow)
Rejected == \E i \in 1..Len(tasks) : AwaitRejected(i)
DeliverLife == \E s \in 1..Len(sessions), b \in LifeBatches : Deliver(s, b, LifeNow)

Next ==
  \/ Started
  \/ StartFailed
  \/ DeliverLife
  \/ Resolved
  \/ Rejected

Spec == Init /\ [][Next]_vars

(* ---------------------------- router run ------------------------------ *)
\* one batch, handled by a session that has handled none
DeliverRouter ==
  /\ last = Absent
  /\ \E s \in 1..Len(sessions), b \in RouterBatches, now \in Clock :
       Deliver(s, b, now)

NextRouter ==
  \/ Started
  \/ DeliverRouter

SpecRouter == Init /\ [][NextRouter]_vars

(* ----------------------------- send run ------------------------------- *)
SendAny ==
  \E sock \in {Absent} \cup {Some(i) : i \in 1..Len(sessions)},
     to \in Recipients, text \in Texts : SendCall(sock, to, text)

NextSend ==
  \/ Started
  \/ SendAny
  \/ SendResolved
  \/ SendRejected

SpecSend == Init /\ [][NextSend]_vars

(* -------------------------- normalizer run ---------------------------- *)
InitNorm ==
  /\ InitLife
  /\ raw \in NormInputs
  /\ rec = Absent
  /\ normPc = "input"

\* one call parseMessageForDb(raw); Date.now() is whatever the clock shows
Normalize ==
  /\ normPc = "input"
  /\ \E now \in Clock : rec' = parseMessageForDb(raw, now)
  /\ normPc' = "done"
  /\ UNCHANGED <<raw, lifeVars, sendVars>>

NextNorm == Normalize
SpecNorm == InitNorm /\ [][NextNorm]_vars

(* ====================================================================== *)
(* Properties                                                             *)
(* ====================================================================== *)
Closed(b) == b.conn # Absent /\ b.conn[1].connection = Some("close")
ClosedLoggedOut(b) == Closed(b) /\ b.conn[1].statusCode = Some(401)
ClosedOtherwise(b) == Closed(b) /\ b.conn[1].statusCode # Some(401)

\* the calls of a trace made by the branch of event ev
EvTrace(trace, ev) == SelectSeq(trace, LAMBDA e : e.ev = ev)
\* the records handed to storeMessage by the branch of event ev, in order
StoredBy(trace, ev) ==
  LET sel == SelectSeq(trace, LAMBDA e : e.ev = ev /\ e.op = "storeMessage")
  IN [i \in 1..Len(sel) |-> sel[i].msg[1]]

\* the records of the messages of a list that normalize, in list order
RECURSIVE ParsedOf(_, _)
ParsedOf(msgs, now) ==
  IF msgs = <<>> THEN <<>>
  ELSE LET parsed == parseMessageForDb(Head(msgs), now)
       IN (IF parsed = Absent THEN <<>> ELSE <<parsed[1]>>)
            \o ParsedOf(Tail(msgs), now)

Normalizes(msg) == \E now \in Clock : parseMessageForDb(msg, now) # Absent

(* ------------------------------- C1 ----------------------------------- *)
\* the handler has gone past the connection branch of the batch
C1PastClose(end) == end \in {"save", "completed", "exited", "rejectedSave"}

C1Handled(b, end, trace) ==
  /\ ClosedLoggedOut(b) /\ C1PastClose(end) =>
       /\ end = "exited"
       /\ proc = "exited"
       /\ CountOp(trace, "startWhatsAppConnection") = 0
  /\ ClosedOtherwise(b) /\ C1PastClose(end) =>
       /\ end # "exited"
       /\ CountOp(trace, "process.exit") = 0
       /\ CountOp(trace, "startWhatsAppConnection") = 1

C1State ==
  /\ \A i \in 1..Len(tasks) :
       C1Handled(tasks[i].batch, tasks[i].pc, tasks[i].trace)
  /\ last # Absent => C1Handled(last[1].batch, last[1].end, last[1].trace)
  /\ proc = "exited" => last # Absent /\ ClosedLoggedOut(last[1].batch)
  /\ \A i \in 1..Len(pending), s \in 1..Len(sessions) :
       pending[i].creds = sessions[s].creds
  /\ \A s, t \in 1..Len(sessions) : sessions[s].creds = sessions[t].creds
  /\ Len(sessions) + Len(pending) <= starts

C1Step ==
  /\ starts' \in {starts, starts + 1}
  /\ starts' = starts + 1 =>
       /\ proc' = "running"
       /\ Len(pending') = Len(pending) + 1
       /\ sessions' = sessions
  /\ proc = "exited" => proc' = "exited" /\ sessions' = sessions /\ starts' = starts
  /\ Len(sessions') > Len(sessions) => Len(pending') < Len(pending)

\* C1: a handled connection close whose cause is the logged-out code ends the
\* process and starts no session, then or later; a handled close of any
\* other cause, an absent one included, leaves the process running and
\* starts exactly one session, with the credential reference of the others.
C1_CloseClassification == []C1State /\ [][C1Step]_vars

\* a transient close gave a second session, whose logged-out close then ended
\* the process
C1_Witness ==
  /\ proc = "exited"
  /\ Len(sessions) = 2
  /\ starts = 2
  /\ last # Absent /\ ClosedLoggedOut(last[1].batch) /\ last[1].sess = 2

(* ------------------------------- C2 ----------------------------------- *)
\* C2 (as claimed): every credential rotation of a batch is persisted,
\* whatever else the batch carries: once the handler of a batch with
\* creds.update has ended other than by a rejected await, saveCreds was
\* called for it.
C2_CredsAlwaysSaved ==
  last # Absent /\ last[1].batch.creds /\ last[1].end \in {"completed", "exited"}
    => CountOp(last[1].trace, "saveCreds") = 1

(* ------------------------------- C3 ----------------------------------- *)
C3Authenticated(sock) == sock # Absent /\ sessions[sock[1]].user

\* C3: a send with no socket or an unauthenticated one reports NotConnected
\* whatever recipient and text are; with an authenticated socket and an
\* empty recipient it reports MissingRecipient whatever the text is; then an
\* empty text reports EmptyText; no rejected send calls sock.sendMessage.
C3_SendRejectionOrder ==
  send.pc # "idle" =>
    /\ ~C3Authenticated(send.sock) =>
         send.report = NotConnectedMsg /\ send.pc = "returned"
    /\ C3Authenticated(send.sock) /\ send.to = EmptyJid =>
         send.report = MissingRecipientMsg /\ send.pc = "returned"
    /\ C3Authenticated(send.sock) /\ send.to # EmptyJid /\ send.text = "" =>
         send.report = EmptyTextMsg /\ send.pc = "returned"
    /\ send.report \in {NotConnectedMsg, MissingRecipientMsg, EmptyTextMsg} =>
         send.calls = <<>> /\ send.ret = Absent

\* a send with no socket and an empty recipient was rejected as NotConnected
C3_Witness ==
  /\ send.pc = "returned"
  /\ send.sock = Absent
  /\ send.to = EmptyJid
  /\ send.report = NotConnectedMsg

(* ------------------------------- C4 ----------------------------------- *)
\* the canonical form of a recipient: device dropped, c.us rewritten, and
\* the empty string for a string with no '@'
C4Canonical(to) ==
  IF to.server = "" THEN EmptyJid
  ELSE [user |-> to.user, device |-> 0,
        server |-> IF to.server = "c.us" THEN "s.whatsapp.net" ELSE to.server]

\* C4: a send whose three preconditions hold calls sock.sendMessage exactly
\* once, on the socket given, with the canonical recipient and the text; when
\* the call throws the send returns undefined with the failure reported and
\* makes no second call; when it resolves the send returns the message with
\* its identifier.
C4_SendOnceNoRetry ==
  send.pc # "idle" /\ C3Authenticated(send.sock) /\ send.to # EmptyJid
      /\ send.text # "" =>
    /\ send.calls = <<[sock |-> send.sock[1], jid |-> C4Canonical(send.to),
                       text |-> send.text]>>
    /\ send.pc = "returned" =>
         \/ send.report = FailedMsg /\ send.ret = Absent
         \/ send.report = SentMsg /\ send.ret # Absent
              /\ send.ret[1].key.id # ""

\* a send to a device JID threw in sock.sendMessage and returned undefined
C4_Witness ==
  /\ send.pc = "returned"
  /\ send.report = FailedMsg
  /\ send.to = PeerDeviceJid
  /\ Len(send.calls) = 1

(* ------------------------------- C5 ----------------------------------- *)
C5Holds(h, trace) ==
  LET t == EvTrace(trace, "messaging-history.set")
      nc == Len(h.chats)
      nm == Cardinality({i \in 1..Len(h.messages) : Normalizes(h.messages[i])})
  IN /\ Len(t) = nc + nm
     /\ \A i \in 1..Len(t) :
          IF i <= nc
            THEN t[i].op = "storeChat" /\ t[i].chat[1].jid = h.chats[i].id
            ELSE t[i].op = "storeMessage"

\* C5: the history branch calls storeChat once per chat of the batch, all of
\* them before its first storeMessage, and storeMessage as many times as
\* messages of the batch normalize.
C5_HistoryChatsFirst ==
  last # Absent /\ last[1].end = "completed" /\ last[1].batch.history # Absent
    => C5Holds(last[1].batch.history[1], last[1].trace)

\* a history of 2 chats and 3 messages, one of which does not normalize,
\* gave 2 chat upserts and then 2 message upserts
C5_Witness ==
  /\ last # Absent /\ last[1].end = "completed"
  /\ last[1].batch.history # Absent
  /\ Len(last[1].batch.history[1].chats) = 2
  /\ Len(last[1].batch.history[1].messages) = 3
  /\ Len(StoredBy(last[1].trace, "messaging-history.set")) = 2

(* ------------------------------- C6 ----------------------------------- *)
\* C6: the storeMessage calls of a history batch, and of an upsert batch
\* that is stored, are the records of the messages that normalize, in list
\* order: a message that does not normalize stops none after it.
C6_PerItemIsolation ==
  last # Absent /\ last[1].end = "completed" =>
    /\ last[1].batch.history # Absent =>
         \E now \in Clock :
           StoredBy(last[1].trace, "messaging-history.set")
             = ParsedOf(last[1].batch.history[1].messages, now)
    /\ last[1].batch.upsert # Absent
         /\ last[1].batch.upsert[1].type \in {"notify", "append"} =>
         \E now \in Clock :
           StoredBy(last[1].trace, "messages.upsert")
             = ParsedOf(last[1].batch.upsert[1].messages, now)

\* an upsert whose first message does not normalize stored its later ones
C6_Witness ==
  /\ last # Absent /\ last[1].end = "completed"
  /\ last[1].batch.upsert # Absent
  /\ last[1].batch.upsert[1].type = "append"
  /\ Len(last[1].batch.upsert[1].messages) = 3
  /\ ~Normalizes(last[1].batch.upsert[1].messages[1])
  /\ Len(StoredBy(last[1].trace, "messages.upsert")) = 2

(* ------------------------------- C7 ----------------------------------- *)
\* C7: an upsert batch of a type other than notify and append makes no
\* storeMessage call, whether or not its messages normalize.
C7_OnlyNotifyAppendStored ==
  last # Absent /\ last[1].batch.upsert # Absent
      /\ last[1].batch.upsert[1].type \notin {"notify", "append"}
    => StoredBy(last[1].trace, "messages.upsert") = <<>>

\* an upsert of another type, with a message that normalizes, was handled
C7_Witness ==
  /\ last # Absent /\ last[1].end = "completed"
  /\ last[1].batch.upsert # Absent
  /\ last[1].batch.upsert[1].type = "prepend"
  /\ \E i \in 1..Len(last[1].batch.upsert[1].messages) :
       Normalizes(last[1].batch.upsert[1].messages[i])

(* ------------------------------- C8 ----------------------------------- *)
TextFields ==
  {"conversation", "extendedText", "imageCaption", "videoCaption",
   "documentCaption", "documentFileName", "locationAddress", "contactName",
   "pollName"}

\* no sub-type is populated, or the populated ones are empty texts
C8Unpopulated(msg) ==
  \/ msg.message = Absent
  \/ /\ \A f \in TextFields : ~TruthyStr(msg.message[1][f])
     /\ ~msg.message[1].audio
     /\ ~msg.message[1].sticker

\* C8: a record the normalizer returns has non-empty content, and a raw
\* message with no populated sub-type, or only empty texts, gives no record.
C8_ContentNonEmpty ==
  normPc = "done" =>
    /\ rec # Absent => rec[1].content # ""
    /\ C8Unpopulated(raw) => rec = Absent

\* a message whose only populated field is an empty image caption gave no
\* record
C8_Witness ==
  /\ normPc = "done"
  /\ raw.message # Absent
  /\ raw.message[1] = [NoContent EXCEPT !.imageCaption = Some("")]
  /\ raw.key # Absent /\ TruthyJid(raw.key[1].remoteJid)
  /\ rec = Absent

(* ----------------------------- C9, C10 -------------------------------- *)
RawFromMe == raw.key[1].fromMe = Some(TRUE)
RawInGroup == raw.key[1].remoteJid[1].server = "g.us"
RawHasParticipant == TruthyJid(raw.key[1].participant)

\* C9 (as claimed): the sender of a record is null exactly when the message
\* is self-sent in a non-group chat, or has no participant identifier in a
\* non-group chat.
C9_SenderNullAsClaimed ==
  normPc = "done" /\ rec # Absent =>
    (rec[1].sender = Absent
       <=> \/ RawFromMe /\ ~RawInGroup
           \/ ~RawHasParticipant /\ ~RawInGroup)

\* C9 (amended): the sender of a record is null exactly when the message is
\* self-sent in a non-group chat, or has no participant identifier in a
\* group chat.
C9_SenderNullExactly ==
  normPc = "done" /\ rec # Absent =>
    (rec[1].sender = Absent
       <=> \/ RawFromMe /\ ~RawInGroup
           \/ ~RawHasParticipant /\ RawInGroup)

\* a group message with no participant identifier gave a record with a null
\* sender
C9_Witness ==
  /\ normPc = "done" /\ rec # Absent
  /\ RawInGroup /\ ~RawHasParticipant /\ ~RawFromMe
  /\ rec[1].sender = Absent

\* C10: a self-sent message of a non-group chat has no sender, whatever its
\* participant and remote identifiers; a message of a non-group chat that is
\* not self-sent and has no participant has the canonical remote identifier
\* as sender; in every other case a present participant is the sender, in
\* canonical form.
C10_SenderAttribution ==
  normPc = "done" /\ rec # Absent =>
    IF RawFromMe /\ ~RawInGroup
      THEN rec[1].sender = Absent
    ELSE IF ~RawInGroup /\ ~RawHasParticipant
      THEN rec[1].sender = Some(C4Canonical(raw.key[1].remoteJid[1]))
    ELSE RawHasParticipant =>
           rec[1].sender = Some(C4Canonical(raw.key[1].participant[1]))

\* a self-sent group message kept its participant, in canonical form, as
\* sender
C10_Witness ==
  /\ normPc = "done" /\ rec # Absent
  /\ RawFromMe /\ RawInGroup
  /\ raw.key[1].participant = Some(LegacyJid)
  /\ rec[1].sender = Some(Jid("222", 0, "s.whatsapp.net"))

(* ----------------------------- C11, C12 ------------------------------- *)
RawContent == raw.message[1]
RawParsable ==
  raw.message # Absent /\ raw.key # Absent /\ TruthyJid(raw.key[1].remoteJid)

\* the document sub-type carries a caption or a file name
C11DocumentPopulated(m) ==
  TruthyStr(m.documentCaption) \/ TruthyStr(m.documentFileName)

C11DocumentText(m) ==
  IF TruthyStr(m.documentCaption) THEN m.documentCaption[1]
  ELSE IF TruthyStr(m.documentFileName) THEN m.documentFileName[1]
  ELSE ""

\* the rendering of the first populated sub-type in the priority order, ""
\* when none is populated
C11Expected(m) ==
  IF TruthyStr(m.conversation) THEN m.conversation[1]
  ELSE IF TruthyStr(m.extendedText) THEN m.extendedText[1]
  ELSE IF TruthyStr(m.imageCaption) THEN "[Image] " \o m.imageCaption[1]
  ELSE IF TruthyStr(m.videoCaption) THEN "[Video] " \o m.videoCaption[1]
  ELSE IF C11DocumentPopulated(m) THEN "[Document] " \o C11DocumentText(m)
  ELSE IF m.audio THEN "[Audio]"
  ELSE IF m.sticker THEN "[Sticker]"
  ELSE IF TruthyStr(m.locationAddress) THEN "[Location] " \o m.locationAddress[1]
  ELSE IF TruthyStr(m.contactName) THEN "[Contact] " \o m.contactName[1]
  ELSE IF TruthyStr(m.pollName) THEN "[Poll] " \o m.pollName[1]
  ELSE ""

\* C11 (as claimed): the content of a raw message is the rendering of its
\* highest-priority populated sub-type in the order conversation, extended
\* text, image caption, video caption, document, audio, sticker, location,
\* contact, poll; populated sub-types of lower priority change nothing.
C11_FirstMatchWins ==
  normPc = "done" /\ RawParsable =>
    IF C11Expected(RawContent) = ""
      THEN rec = Absent
      ELSE rec # Absent /\ rec[1].content = C11Expected(RawContent)

\* the document sub-type decides the content: nothing of higher priority is
\* populated
C12DocumentDecides(m) ==
  /\ ~TruthyStr(m.conversation) /\ ~TruthyStr(m.extendedText)
  /\ ~TruthyStr(m.imageCaption) /\ ~TruthyStr(m.videoCaption)
  /\ (m.documentCaption # Absent \/ m.documentFileName # Absent)

\* C12 (as claimed): a document gives "[Document] " followed by its caption,
\* else by its file name, else by nothing; a document with a file name and
\* no caption gives "[Document] <fileName>".
C12_DocumentCaptionOrFileName ==
  normPc = "done" /\ RawParsable /\ C12DocumentDecides(RawContent) =>
    rec # Absent
      /\ rec[1].content = "[Document] " \o C11DocumentText(RawContent)

\* the cases of C11 that do not rest on a document without a caption
C11_ExceptCaptionlessDocument ==
  normPc = "done" /\ RawParsable
      /\ (C12DocumentDecides(RawContent) => TruthyStr(RawContent.documentCaption)) =>
    IF C11Expected(RawContent) = ""
      THEN rec = Absent
      ELSE rec # Absent /\ rec[1].content = C11Expected(RawContent)

(* ------------------------------- C19 ---------------------------------- *)
\* the two integer representations the conversion accepts
C19Integer(msg) == msg.tsKind \in {"number", "bigint"}

\* C19: a record's timestamp is the seconds value times 1000 when the raw
\* timestamp is a number or a wide integer, and the wall clock otherwise
\* (absent or another representation); whether a record is produced never
\* depends on the timestamp.
C19_TimestampMillis ==
  normPc = "done" =>
    /\ rec # Absent /\ C19Integer(raw) => rec[1].timestamp = raw.tsVal * 1000
    /\ rec # Absent /\ ~C19Integer(raw) => rec[1].timestamp \in Clock
    /\ rec = Absent =>
         ~RawParsable \/ ~TruthyStr(ExtractContent(raw.message[1]))

\* a wide-integer timestamp of a nonzero number of seconds was scaled
C19_Witness ==
  /\ normPc = "done"
  /\ raw.tsKind = "bigint" /\ raw.tsVal > 0
  /\ rec # Absent
  /\ rec[1].timestamp = raw.tsVal * 1000

(* ------------------------------- C13 ---------------------------------- *)
\* the newest session, with no reconnect under way
CurrentSession == Len(sessions)

\* the handler of the current session has handled the report of "open"
C13CurrentOpened ==
  /\ pending = <<>>
  /\ last # Absent
  /\ last[1].sess = CurrentSession
  /\ last[1].batch.conn # Absent
  /\ last[1].batch.conn[1].connection = Some("open")
  /\ C1PastClose(last[1].end)

\* C13 (as claimed): whenever the current session has entered Open, after
\* any number of reconnects, the session handle the callers of send hold is
\* that current session.
C13_GatekeeperHoldsCurrentSession ==
  C13CurrentOpened => callerSock = Some(CurrentSession)

(* ------------------------------- C14 ---------------------------------- *)
C14Writes == {"storeChat", "storeMessage", "saveCreds", "startWhatsAppConnection"}

\* no storage write, credential save or reconnect follows the start of a
\* reconnect in the calls of one invocation
C14QuietAfterReconnect(trace) ==
  \A i, j \in 1..Len(trace) :
    i < j /\ trace[i].op = "startWhatsAppConnection" => trace[j].op \notin C14Writes

\* C14 (as claimed): once the handler of a session has started a reconnect,
\* no event of that superseded session causes a storage write, a credential
\* save or another reconnect.
C14_SupersededSessionSilent ==
  /\ \A i \in 1..Len(tasks) : C14QuietAfterReconnect(tasks[i].trace)
  /\ last # Absent => C14QuietAfterReconnect(last[1].trace)

(* ------------------------------- C15 ---------------------------------- *)
\* C15 (as claimed): once the first session exists, whatever a collaborator
\* of the handler or of a reconnect throws, the process is running unless
\* the handler of a logged-out close ended it.
C15_ExceptionsNeverTerminate ==
  callerSock # Absent /\ proc # "running" =>
    /\ proc = "exited"
    /\ last # Absent /\ ClosedLoggedOut(last[1].batch) /\ last[1].end = "exited"

(* ------------------------------- C16 ---------------------------------- *)
\* the batch carries something the handler handles after the challenge
C16HasMore(b) ==
  \/ b.conn # Absent /\ b.conn[1].connection # Absent
  \/ b.creds
  \/ b.history # Absent \/ b.upsert # Absent \/ b.chats # Absent

\* C16 (as claimed): the handler never waits for the presentation of a
\* challenge: no invocation is suspended on the presentation call while
\* events of its batch are still to be handled.
C16_PresentationNonBlocking ==
  \A i \in 1..Len(tasks) : tasks[i].pc = "open" => ~C16HasMore(tasks[i].batch)

(* ------------------------------- C17 ---------------------------------- *)
C17Opens(trace) == SelectSeq(trace, LAMBDA e : e.op = "open")

C17Presented(b, trace) ==
  IF b.conn # Absent /\ TruthyStr(b.conn[1].qr)
    THEN /\ Len(C17Opens(trace)) = 1
         /\ C17Opens(trace)[1].url = OpenEff(b.conn[1].qr[1]).url
    ELSE C17Opens(trace) = <<>>

\* C17: an invocation whose connection update carries a challenge has called
\* the presentation exactly once, with the URL of that token; an invocation
\* whose batch carries no challenge has not called it.
C17_ChallengePresentedOnce ==
  /\ \A i \in 1..Len(tasks) : C17Presented(tasks[i].batch, tasks[i].trace)
  /\ last # Absent => C17Presented(last[1].batch, last[1].trace)

\* a batch with a challenge was handled to its end with one presentation of
\* the escaped token
C17_Witness ==
  /\ last # Absent
  /\ last[1].end = "completed"
  /\ last[1].batch.conn # Absent
  /\ last[1].batch.conn[1].qr = Some("2@qr")
  /\ Len(C17Opens(last[1].trace)) = 1
  /\ C17Opens(last[1].trace)[1].url = "https://quickchart.io/qr?text=2%40qr"

(* ------------------------------- C18 ---------------------------------- *)
\* C18 (as claimed): initializeDatabase has been called exactly once, however
\* many reconnects there have been.
C18_InitializeDatabaseOnce == initDbCalls = 1

(* ------------------------------- C20 ---------------------------------- *)
C20Silent(b, end, trace) ==
  ClosedLoggedOut(b) /\ C1PastClose(end) =>
    /\ end = "exited"
    /\ \A i \in 1..Len(trace) : trace[i].op \notin C14Writes

C20State ==
  /\ \A i \in 1..Len(tasks) :
       C20Silent(tasks[i].batch, tasks[i].pc, tasks[i].trace)
  /\ last # Absent => C20Silent(last[1].batch, last[1].end, last[1].trace)

C20Step ==
  proc = "exited" =>
    /\ proc' = "exited"
    /\ UNCHANGED <<sessions, pending, starts, initDbCalls, tasks, last, delivered>>

\* C20: the invocation that handles a logged-out close makes no storeChat,
\* storeMessage, saveCreds or session-creating call, for the later events of
\* its batch included, and once the process has exited no invocation runs or
\* resumes and no session is made.
C20_NothingAfterLoggedOut == []C20State /\ [][C20Step]_vars

\* a logged-out close arrived with a credential rotation, history, an upsert
\* and a chat update; the only call of the invocation is process.exit
C20_Witness ==
  /\ proc = "exited"
  /\ last # Absent
  /\ ClosedLoggedOut(last[1].batch)
  /\ last[1].batch.conn[1].qr = Absent
  /\ last[1].batch.creds
  /\ last[1].batch.history # Absent /\ last[1].batch.upsert # Absent
  /\ last[1].batch.chats # Absent
  /\ Len(last[1].trace) = 1
  /\ last[1].trace[1].op = "process.exit"
====
